---- MODULE Spec2Model ----
(***************************************************************************)
(* The stock dashboard script good.py as a state machine.  One run of the  *)
(* script is a walk of pc from "start" to "done" or "aborted"; each st.*   *)
(* call that puts an element on the page is one step.  A widget           *)
(* interaction after a run re-executes the script from the top.           *)
(*                                                                         *)
(* Numbers: prices and volumes are floats in the program.  They are kept   *)
(* here as fixed-point integers in thousandths (mills), so 10.015 is       *)
(* 10015.   Percent changes are exact fractions [num, den].  Dates are     *)
(* day numbers 1..MaxDay, MaxDay + 1 standing for "today".                 *)
(***************************************************************************)
EXTENDS Integers, Sequences, FiniteSets, TLC

VARIABLES
    market,        \* upstream daily rows per ticker (what yfinance serves)
    symbols,       \* multiselect value, in order of selection
    start_date,    \* date_input "Start Date"
    end_date,      \* date_input "End Date"
    dark_mode,     \* checkbox
    refresh,       \* button: TRUE on the run its click triggered
    pc,            \* position of the running script
    fetch_calls,   \* number of yf.download calls made by this run
    all_data,      \* result of yf.download, per ticker
    preview_data,  \* the concatenated preview table
    shown,         \* what st.dataframe was given (preview_data.head(20))
    csv_data,      \* lines of the CSV handed to the download button
    fig_open,      \* traces of the four figures
    fig_close,
    fig_vol,
    fig_pct,
    latest_data,   \* snapshot rows appended so far
    df_latest,     \* what st.table was given
    emitted,       \* page elements of this run, in order of emission
    error,         \* the exception that ended this run, or "none"
    prev           \* record of the previous run (history, for rerun comparison)

vars == <<market, symbols, start_date, end_date, dark_mode, refresh, pc,
          fetch_calls, all_data, preview_data, shown, csv_data, fig_open,
          fig_close, fig_vol, fig_pct, latest_data, df_latest, emitted, error,
          prev>>

inputs == <<symbols, start_date, end_date, dark_mode, refresh>>

outputs == <<preview_data, shown, csv_data, fig_open, fig_close, fig_vol,
             fig_pct, latest_data, df_latest>>

----------------------------------------------------------------------------
(* Bounds and program constants *)

NumCandidates == 3

MaxDay == 7

NumMarkets == 2

HeadRows == 20

AllTickers ==
    <<"AAPL", "MSFT", "GOOGL", "AMZN", "TSLA", "META", "NVDA", "NFLX", "IBM", "INTC">>

Candidates == SubSeq(AllTickers, 1, NumCandidates)

DefaultSymbols == <<"AAPL", "MSFT">>

DefaultStart == 1

Today == MaxDay + 1

Days == 1..MaxDay

Range(s) == {s[i] : i \in 1..Len(s)}

CandidateSet == Range(Candidates)

TickerIndex(sym) == CHOOSE i \in 1..Len(AllTickers) : AllTickers[i] = sym

----------------------------------------------------------------------------
(* Upstream data.  Market v lists ticker number i on day 1 + 3(v-1)i, so   *)
(* market 1 has every ticker on every day and the later markets have       *)
(* tickers with short or empty histories.  Prices move up on odd days and  *)
(* down on even days and include values that sit exactly between two cents.*)

BasePrice(i) == 10000 * i

OpenOf(i, d) == BasePrice(i) + 14 * d

CloseOf(i, d) == BasePrice(i) + (IF d % 2 = 0 THEN 0 - 15 * d ELSE 15 * d)

MaxOf(a, b) == IF a >= b THEN a ELSE b

MinOf(a, b) == IF a <= b THEN a ELSE b

OHLCVRow(i, d) ==
    [Date   |-> d,
     Open   |-> OpenOf(i, d),
     High   |-> MaxOf(OpenOf(i, d), CloseOf(i, d)) + 7,
     Low    |-> MinOf(OpenOf(i, d), CloseOf(i, d)) - 16,
     Close  |-> CloseOf(i, d),
     Volume |-> (1000 * i + 10 * d) * 1000]

FirstDay(v, i) == 1 + 3 * (v - 1) * i

History(v, i) ==
    IF FirstDay(v, i) > MaxDay THEN <<>>
    ELSE [k \in 1..(MaxDay - FirstDay(v, i) + 1) |-> OHLCVRow(i, FirstDay(v, i) + k - 1)]

MarketOf(v) == [sym \in CandidateSet |-> History(v, TickerIndex(sym))]

Markets == {MarketOf(v) : v \in 1..NumMarkets}

----------------------------------------------------------------------------
(* Library operations used by the script *)

\* yf.download(symbols, start=, end=, group_by='ticker'): per requested ticker,
\* its rows with start <= date < end, in date order.
InRange(row, from, to) == from <= row.Date /\ row.Date < to

Download(mkt, syms, from, to) ==
    [sym \in CandidateSet |->
        IF sym \in Range(syms)
        THEN SelectSeq(mkt[sym], LAMBDA row : InRange(row, from, to))
        ELSE <<>>]

NoData == [sym \in CandidateSet |-> <<>>]

\* df.assign(Symbol=sym)
AssignSymbol(df, sym) ==
    [k \in 1..Len(df) |->
        [Date |-> df[k].Date, Open |-> df[k].Open, High |-> df[k].High,
         Low |-> df[k].Low, Close |-> df[k].Close, Volume |-> df[k].Volume,
         Symbol |-> sym]]

\* pd.concat([...]) of a list of frames
RECURSIVE Concat(_)
Concat(frames) ==
    IF frames = <<>> THEN <<>> ELSE Head(frames) \o Concat(Tail(frames))

\* Faulty variant: every block tagged with the last symbol of the selection
PreviewDataLateBound(data, syms) ==
    Concat([k \in 1..Len(syms) |-> AssignSymbol(data[syms[k]], syms[Len(syms)])])

\* pd.concat([all_data[sym].assign(Symbol=sym) for sym in symbols])
PreviewData(data, syms) ==
    Concat([k \in 1..Len(syms) |-> AssignSymbol(data[syms[k]], syms[k])])

\* df.head(n)
HeadOf(df, n) == SubSeq(df, 1, MinOf(n, Len(df)))

\* df.to_csv(index=True): a header line, then one line per row, index first
CsvHeader == <<"Date", "Open", "High", "Low", "Close", "Volume", "Symbol">>

CsvLine(row) ==
    <<row.Date, row.Open, row.High, row.Low, row.Close, row.Volume, row.Symbol>>

\* Faulty variant: the export of the truncated on-screen preview
ToCsvOfHead(df) ==
    <<CsvHeader>> \o [k \in 1..MinOf(HeadRows, Len(df)) |-> CsvLine(df[k])]

ToCsv(df) == <<CsvHeader>> \o [k \in 1..Len(df) |-> CsvLine(df[k])]

\* Column of a frame
Column(df, field) == [k \in 1..Len(df) |-> df[k][field]]

\* Exact fractions, kept in lowest terms with a positive denominator
RECURSIVE GCD(_, _)
GCD(a, b) == IF b = 0 THEN a ELSE GCD(b, a % b)

Abs(n) == IF n < 0 THEN 0 - n ELSE n

Frac(n, d) ==
    LET g == GCD(Abs(n), d)
    IN  [def |-> TRUE, num |-> n \div g, den |-> d \div g]

NaN == [def |-> FALSE, num |-> 0, den |-> 1]

\* Faulty variant: the first day filled with 0 instead of left missing
PctChangeZeroFilled(close) ==
    [t \in 1..Len(close) |->
        IF t = 1 THEN [def |-> TRUE, num |-> 0, den |-> 1]
        ELSE LET q == Frac(close[t], close[t - 1])
                 r == Frac(q.num - q.den, q.den)
             IN  Frac(r.num * 100, r.den)]

\* Series.pct_change() * 100: close / close.shift(1) - 1, then times 100;
\* the first element has no predecessor and is NaN.
PctChange(close) ==
    [t \in 1..Len(close) |->
        IF t = 1 THEN NaN
        ELSE LET q == Frac(close[t], close[t - 1])
                 r == Frac(q.num - q.den, q.den)
             IN  Frac(r.num * 100, r.den)]

\* round(x, 2) on a float: nearest cent, ties to the even cent
Round2(x) ==
    LET q == x \div 10
        r == x % 10
    IN  IF r < 5 THEN q * 10
        ELSE IF r > 5 THEN (q + 1) * 10
        ELSE IF q % 2 = 0 THEN q * 10 ELSE (q + 1) * 10

\* int(x) on a non-negative float
ToInt(x) == x \div 1000

\* Faulty variant: the theme toggle leaking into the trace
ScatterThemed(df, ys, mode, sym) ==
    [name |-> sym, x |-> Column(df, "Date"), y |-> ys,
     mode |-> IF dark_mode THEN "markers" ELSE mode]

\* go.Scatter(x=df.index, y=..., name=sym)
Scatter(df, ys, mode, sym) ==
    [name |-> sym, x |-> Column(df, "Date"), y |-> ys, mode |-> mode]

----------------------------------------------------------------------------
(* The script, lines 49-147.  emitted lists the elements this block puts   *)
(* on the page; the static title and sidebar of lines 8-47 are the same in *)
(* every run and are left out.                                             *)

\* Faulty variant: the selection never tested
HasSymbolsAlways(syms) == TRUE

\* if symbols:
HasSymbols(syms) == syms # <<>>

\* Faulty variant: the volume chart drawn before the closing chart
NextStageVolumeFirst(stage) ==
    CASE stage = "loaded"   -> "preview"
      [] stage = "preview"  -> "csv"
      [] stage = "csv"      -> "open"
      [] stage = "open"     -> "volume"
      [] stage = "volume"   -> "close"
      [] stage = "close"    -> "pct"
      [] stage = "pct"      -> "snapshot"
      [] stage = "snapshot" -> "done"

\* Statement order of the data load block
NextStage(stage) ==
    CASE stage = "loaded"   -> "preview"
      [] stage = "preview"  -> "csv"
      [] stage = "csv"      -> "open"
      [] stage = "open"     -> "close"
      [] stage = "close"    -> "volume"
      [] stage = "volume"   -> "pct"
      [] stage = "pct"      -> "snapshot"
      [] stage = "snapshot" -> "done"

\* Faulty variant: the exception of the fetch swallowed
AfterDownloadSwallowed(ok) == "loaded"

\* An exception leaves the script; a normal return goes on to line 52
AfterDownload(ok) == IF ok THEN "loaded" ELSE "aborted"

\* One figure: a trace per selected symbol, in selection order
Figure(data, syms, field, mode) ==
    [k \in 1..Len(syms) |->
        Scatter(data[syms[k]], Column(data[syms[k]], field), mode, syms[k])]

PctFigure(data, syms) ==
    [k \in 1..Len(syms) |->
        Scatter(data[syms[k]], PctChange(Column(data[syms[k]], "Close")), "lines", syms[k])]

\* Faulty variant: iloc[0]
OldestRow(df) == df[1]

\* df.iloc[-1]
LatestRow(df) == df[Len(df)]

\* One appended snapshot entry (lines 136-141)
SnapshotRow(sym, latest_row) ==
    [Symbol       |-> sym,
     LatestPrice  |-> Round2(latest_row.Close),
     OpeningPrice |-> Round2(latest_row.Open),
     High         |-> Round2(latest_row.High),
     Low          |-> Round2(latest_row.Low),
     Volume       |-> ToInt(latest_row.Volume)]

\* Index of the first selected symbol whose frame is empty (iloc[-1] raises
\* IndexError there), or Len(syms) + 1 when there is none
FirstEmpty(data, syms) ==
    IF \E k \in 1..Len(syms) : data[syms[k]] = <<>>
    THEN CHOOSE k \in 1..Len(syms) :
            /\ data[syms[k]] = <<>>
            /\ \A j \in 1..(k - 1) : data[syms[j]] # <<>>
    ELSE Len(syms) + 1

\* line 51
DownloadData ==
    /\ pc = "start"
    /\ HasSymbols(symbols)
    /\ fetch_calls' = fetch_calls + 1
    /\ \E ok \in BOOLEAN :
        /\ pc' = AfterDownload(ok)
        /\ IF ok
           THEN /\ all_data' = Download(market, symbols, start_date, end_date)
                /\ UNCHANGED <<emitted, error>>
           ELSE /\ emitted' = Append(emitted, "error")
                /\ error' = "download"
                /\ UNCHANGED all_data
    /\ UNCHANGED <<market, inputs, outputs, prev>>

\* line 52
ShowSuccess ==
    /\ pc = "loaded"
    /\ emitted' = Append(emitted, "success")
    /\ pc' = NextStage(pc)
    /\ UNCHANGED <<market, inputs, fetch_calls, all_data, outputs, error, prev>>

\* lines 55-58
RawDataPreview ==
    /\ pc = "preview"
    /\ preview_data' = PreviewData(all_data, symbols)
    /\ shown' = HeadOf(preview_data', HeadRows)
    /\ emitted' = emitted \o <<"subheader_preview", "preview">>
    /\ pc' = NextStage(pc)
    /\ UNCHANGED <<market, inputs, fetch_calls, all_data, csv_data, fig_open,
                   fig_close, fig_vol, fig_pct, latest_data, df_latest, error, prev>>

\* lines 61-67
CsvDownload ==
    /\ pc = "csv"
    /\ csv_data' = ToCsv(preview_data)
    /\ emitted' = Append(emitted, "csv")
    /\ pc' = NextStage(pc)
    /\ UNCHANGED <<market, inputs, fetch_calls, all_data, preview_data, shown,
                   fig_open, fig_close, fig_vol, fig_pct, latest_data, df_latest,
                   error, prev>>

\* lines 70-80
OpeningChart ==
    /\ pc = "open"
    /\ fig_open' = Figure(all_data, symbols, "Open", "lines")
    /\ emitted' = emitted \o <<"subheader_open", "chart_open">>
    /\ pc' = NextStage(pc)
    /\ UNCHANGED <<market, inputs, fetch_calls, all_data, preview_data, shown,
                   csv_data, fig_close, fig_vol, fig_pct, latest_data, df_latest,
                   error, prev>>

\* lines 83-93
ClosingChart ==
    /\ pc = "close"
    /\ fig_close' = Figure(all_data, symbols, "Close", "lines+markers")
    /\ emitted' = emitted \o <<"subheader_close", "chart_close">>
    /\ pc' = NextStage(pc)
    /\ UNCHANGED <<market, inputs, fetch_calls, all_data, preview_data, shown,
                   csv_data, fig_open, fig_vol, fig_pct, latest_data, df_latest,
                   error, prev>>

\* lines 96-107
VolumeChart ==
    /\ pc = "volume"
    /\ fig_vol' = Figure(all_data, symbols, "Volume", "lines_stacked")
    /\ emitted' = emitted \o <<"subheader_volume", "chart_volume">>
    /\ pc' = NextStage(pc)
    /\ UNCHANGED <<market, inputs, fetch_calls, all_data, preview_data, shown,
                   csv_data, fig_open, fig_close, fig_pct, latest_data, df_latest,
                   error, prev>>

\* lines 110-121
PctChart ==
    /\ pc = "pct"
    /\ fig_pct' = PctFigure(all_data, symbols)
    /\ emitted' = emitted \o <<"subheader_pct", "chart_pct">>
    /\ pc' = NextStage(pc)
    /\ UNCHANGED <<market, inputs, fetch_calls, all_data, preview_data, shown,
                   csv_data, fig_open, fig_close, fig_vol, latest_data, df_latest,
                   error, prev>>

\* lines 124-144: the loop stops with IndexError at the first empty frame
LatestSnapshot ==
    /\ pc = "snapshot"
    /\ LET stop == FirstEmpty(all_data, symbols)
       IN  /\ latest_data' =
                [k \in 1..(stop - 1) |->
                    SnapshotRow(symbols[k], LatestRow(all_data[symbols[k]]))]
           /\ IF stop > Len(symbols)
              THEN /\ df_latest' = latest_data'
                   /\ emitted' = emitted \o <<"subheader_snapshot", "snapshot">>
                   /\ pc' = NextStage(pc)
                   /\ UNCHANGED error
              ELSE /\ emitted' = emitted \o <<"subheader_snapshot", "error">>
                   /\ error' = "IndexError"
                   /\ pc' = "aborted"
                   /\ UNCHANGED df_latest
    /\ UNCHANGED <<market, inputs, fetch_calls, all_data, preview_data, shown,
                   csv_data, fig_open, fig_close, fig_vol, fig_pct, prev>>

\* lines 146-147
SelectWarning ==
    /\ pc = "start"
    /\ ~HasSymbols(symbols)
    /\ emitted' = Append(emitted, "warning")
    /\ pc' = "done"
    /\ UNCHANGED <<market, inputs, fetch_calls, all_data, outputs, error, prev>>

----------------------------------------------------------------------------
(* Re-execution.  A widget interaction after a run starts the script again *)
(* from the top with the widgets' new values and no variable of the old    *)
(* run.                                                                    *)

RunEnded == pc \in {"done", "aborted"}

ScriptStart(syms, from, to, dark, clicked) ==
    /\ RunEnded
    /\ symbols' = syms
    /\ start_date' = from
    /\ end_date' = to
    /\ dark_mode' = dark
    /\ refresh' = clicked
    /\ pc' = "start"
    /\ fetch_calls' = 0
    /\ all_data' = NoData
    /\ preview_data' = <<>>
    /\ shown' = <<>>
    /\ csv_data' = <<>>
    /\ fig_open' = <<>>
    /\ fig_close' = <<>>
    /\ fig_vol' = <<>>
    /\ fig_pct' = <<>>
    /\ latest_data' = <<>>
    /\ df_latest' = <<>>
    /\ emitted' = <<>>
    /\ error' = "none"
    /\ UNCHANGED market

Remove(syms, sym) == SelectSeq(syms, LAMBDA x : x # sym)

\* multiselect, line 20: pick one more option
SelectSymbol ==
    \E sym \in CandidateSet \ Range(symbols) :
        ScriptStart(Append(symbols, sym), start_date, end_date, dark_mode, FALSE)

\* multiselect, line 20: drop a chosen option
DeselectSymbol ==
    \E sym \in Range(symbols) :
        ScriptStart(Remove(symbols, sym), start_date, end_date, dark_mode, FALSE)

\* date_input, line 27
SetStartDate(choices) ==
    \E d \in choices \ {start_date} :
        ScriptStart(symbols, d, end_date, dark_mode, FALSE)

\* date_input, line 28
SetEndDate(choices) ==
    \E d \in choices \ {end_date} :
        ScriptStart(symbols, start_date, d, dark_mode, FALSE)

\* checkbox, line 40
ToggleDarkTheme ==
    ScriptStart(symbols, start_date, end_date, ~dark_mode, FALSE)

\* button, line 47
ClickRefresh ==
    ScriptStart(symbols, start_date, end_date, dark_mode, TRUE)

\* The data provider publishes other data before this run's fetch
UpstreamChange ==
    /\ pc = "start"
    /\ \E m \in Markets \ {market} : market' = m
    /\ UNCHANGED <<inputs, pc, fetch_calls, all_data, outputs, emitted, error>>

\* What a finished run is remembered by
NoRun == [ran |-> FALSE]

RunRecord ==
    [ran |-> TRUE, market |-> market, symbols |-> symbols,
     start_date |-> start_date, end_date |-> end_date,
     dark_mode |-> dark_mode, refresh |-> refresh, pc |-> pc, error |-> error, emitted |-> emitted, shown |-> shown,
     preview_data |-> preview_data, csv_data |-> csv_data,
     fig_open |-> fig_open, fig_close |-> fig_close, fig_vol |-> fig_vol,
     fig_pct |-> fig_pct, df_latest |-> df_latest]

Init ==
    /\ market \in Markets
    /\ symbols = DefaultSymbols
    /\ start_date = DefaultStart
    /\ end_date = Today
    /\ dark_mode = FALSE
    /\ refresh = FALSE
    /\ pc = "start"
    /\ fetch_calls = 0
    /\ all_data = NoData
    /\ preview_data = <<>>
    /\ shown = <<>>
    /\ csv_data = <<>>
    /\ fig_open = <<>>
    /\ fig_close = <<>>
    /\ fig_vol = <<>>
    /\ fig_pct = <<>>
    /\ latest_data = <<>>
    /\ df_latest = <<>>
    /\ emitted = <<>>
    /\ error = "none"
    /\ prev = NoRun

Next ==
    \/ DownloadData
    \/ ShowSuccess
    \/ RawDataPreview
    \/ CsvDownload
    \/ OpeningChart
    \/ ClosingChart
    \/ VolumeChart
    \/ PctChart
    \/ LatestSnapshot
    \/ SelectWarning
    \/ SelectSymbol /\ UNCHANGED prev
    \/ DeselectSymbol /\ UNCHANGED prev
    \/ SetStartDate(Days) /\ UNCHANGED prev
    \/ SetEndDate(Days \cup {Today}) /\ UNCHANGED prev
    \/ ToggleDarkTheme /\ UNCHANGED prev
    \/ ClickRefresh /\ UNCHANGED prev
    \/ UpstreamChange /\ UNCHANGED prev

Spec == Init /\ [][Next]_vars

\* The same program, remembering each finished run when the next one starts.
\* The date pickers move between a short, a full and an empty range.
RerunStartDays == {DefaultStart, DefaultStart + 2}

RerunEndDays == {DefaultStart + 2, Today}

Remember == prev' = RunRecord

NextRerun ==
    \/ DownloadData
    \/ ShowSuccess
    \/ RawDataPreview
    \/ CsvDownload
    \/ OpeningChart
    \/ ClosingChart
    \/ VolumeChart
    \/ PctChart
    \/ LatestSnapshot
    \/ SelectWarning
    \/ SelectSymbol /\ Remember
    \/ DeselectSymbol /\ Remember
    \/ SetStartDate(RerunStartDays) /\ Remember
    \/ SetEndDate(RerunEndDays) /\ Remember
    \/ ToggleDarkTheme /\ Remember
    \/ ClickRefresh /\ Remember
    \/ UpstreamChange /\ UNCHANGED prev

SpecRerun == Init /\ [][NextRerun]_vars

----------------------------------------------------------------------------
(* Properties *)

\* The eight outputs of a run, in the order the script produces them
OutputOrder ==
    <<"success", "preview", "csv", "chart_open", "chart_close", "chart_volume",
      "chart_pct", "snapshot">>

Rendered == SelectSeq(emitted, LAMBDA e : e \in Range(OutputOrder))

IsPrefix(a, b) == Len(a) <= Len(b) /\ \A k \in 1..Len(a) : a[k] = b[k]

Shows(e) == e \in Range(emitted)

NothingBuilt ==
    /\ preview_data = <<>> /\ shown = <<>> /\ csv_data = <<>>
    /\ fig_open = <<>> /\ fig_close = <<>> /\ fig_vol = <<>> /\ fig_pct = <<>>
    /\ latest_data = <<>> /\ df_latest = <<>>

\* Number of rows fetched for the symbols selected before position k
RECURSIVE RowsBefore(_, _, _)
RowsBefore(data, syms, k) ==
    IF k <= 1 THEN 0
    ELSE RowsBefore(data, syms, k - 1) + Len(data[syms[k - 1]])

SameOHLCV(a, b) ==
    /\ a.Date = b.Date /\ a.Open = b.Open /\ a.High = b.High
    /\ a.Low = b.Low /\ a.Close = b.Close /\ a.Volume = b.Volume

\* C1: with an empty selection the run fetches nothing, shows the warning and
\* nothing else (no success, preview, CSV, chart or snapshot); and the warning
\* is on the page only when the selection is empty.
C1_EmptySelection ==
    /\ symbols = <<>> =>
        /\ fetch_calls = 0
        /\ all_data = NoData
        /\ Rendered = <<>>
        /\ NothingBuilt
        /\ pc \in {"start", "done"}
        /\ pc = "done" => emitted = <<"warning">>
    /\ Shows("warning") => symbols = <<>>

C1_Witness ==
    symbols = <<>> /\ pc = "done" /\ emitted = <<"warning">> /\ fetch_calls = 0

\* C2: once the preview is built it holds, block after block in selection
\* order, exactly the fetched rows of each selected symbol, in their fetched
\* (chronological) order, each tagged with the symbol it came from.
C2_PreviewIsTaggedUnion ==
    Shows("preview") =>
        /\ Len(preview_data) = RowsBefore(all_data, symbols, Len(symbols) + 1)
        /\ \A k \in 1..Len(symbols) :
            LET sym == symbols[k]
                off == RowsBefore(all_data, symbols, k)
            IN  \A j \in 1..Len(all_data[sym]) :
                    /\ SameOHLCV(preview_data[off + j], all_data[sym][j])
                    /\ preview_data[off + j].Symbol = sym
                    /\ j > 1 => preview_data[off + j - 1].Date < preview_data[off + j].Date

C2_Witness ==
    /\ Shows("preview")
    /\ Len(symbols) >= 2
    /\ start_date <= end_date
    /\ \A k \in 1..Len(symbols) : Len(all_data[symbols[k]]) >= 1
    /\ Len(all_data[symbols[1]]) >= 2
    /\ Len(all_data[symbols[1]]) # Len(all_data[symbols[2]])

\* C4: when the fetch raises, the run is over at once: it is aborted and has
\* shown no success confirmation, preview, CSV download, chart or snapshot.
C4_FetchFailureAborts ==
    error = "download" =>
        /\ pc = "aborted"
        /\ Rendered = <<>>
        /\ NothingBuilt
        /\ all_data = NoData

C4_Witness ==
    error = "download" /\ pc = "aborted" /\ fetch_calls = 1 /\ Len(symbols) >= 2

\* C8: the outputs shown so far are always a prefix of the fixed order
\* success, preview, CSV, open chart, close chart, volume chart, percent
\* chart, snapshot; the success confirmation is shown only after the fetch
\* has returned; and a run that completes with a selection has shown all.
C8_FixedOutputOrder ==
    /\ IsPrefix(Rendered, OutputOrder)
    /\ Shows("success") => (fetch_calls = 1 /\ error # "download")
    /\ (pc = "done" /\ symbols # <<>>) => Rendered = OutputOrder

C8_Witness ==
    pc = "done" /\ Len(symbols) >= 2 /\ Rendered = OutputOrder

\* Symbols of the selection that came back with at least one row
WithRows == SelectSeq(symbols, LAMBDA s : all_data[s] # <<>>)

OnlyWithRows(names) == SelectSeq(names, LAMBDA s : s \in Range(WithRows))

\* The symbols of a table in order of first appearance, when every symbol's
\* rows lie together; <<>> marks a table where some symbol comes back later
RECURSIVE Blocks(_)
Blocks(names) ==
    IF names = <<>> THEN <<>>
    ELSE LET rest == Blocks(Tail(names))
         IN  IF rest # <<>> /\ Head(rest) = Head(names) THEN rest
             ELSE <<Head(names)>> \o rest

\* C3: a run with a selection ends either with all eight outputs rendered or
\* with none of preview, CSV, charts and snapshot rendered; never with some
\* of them rendered and others missing.
C3_NoPartialSuccess ==
    (RunEnded /\ symbols # <<>>) =>
        \/ Rendered = OutputOrder
        \/ Rendered \in {<<>>, <<"success">>}

\* C5 as stated: in the percent-change chart every symbol's series has
\* exactly one defined value fewer than its close series, the first value is
\* undefined and day t > 1 has (close[t] - close[t-1]) / close[t-1] * 100.
PctTraceOk(trace, close) ==
    /\ Len(trace.y) = Len(close)
    /\ \A t \in 1..Len(close) :
        IF t = 1 THEN ~trace.y[t].def
        ELSE /\ trace.y[t].def
             /\ trace.y[t].num * close[t - 1]
                    = (close[t] - close[t - 1]) * 100 * trace.y[t].den

Defined(ys) == Cardinality({t \in 1..Len(ys) : ys[t].def})

IsRounded2(v, x) == v % 10 = 0 /\ v - x <= 5 /\ x - v <= 5

IsWhole(n, x) == n * 1000 <= x /\ x < (n + 1) * 1000

ChronologicallyLast(df) ==
    CHOOSE r \in Range(df) : \A o \in Range(df) : o.Date <= r.Date

C6_SnapshotFromLastRow ==
    /\ Len(latest_data) <= Len(symbols)
    /\ \A k \in 1..Len(latest_data) :
        LET snap == latest_data[k]
            last == ChronologicallyLast(all_data[symbols[k]])
        IN  /\ snap.Symbol = symbols[k]
            /\ IsRounded2(snap.LatestPrice, last.Close)
            /\ IsRounded2(snap.OpeningPrice, last.Open)
            /\ IsRounded2(snap.High, last.High)
            /\ IsRounded2(snap.Low, last.Low)
            /\ IsWhole(snap.Volume, last.Volume)
    /\ Shows("snapshot") => (df_latest = latest_data /\ Len(df_latest) = Len(symbols))
    /\ ~Shows("snapshot") => df_latest = <<>>

C6_Witness ==
    /\ Shows("snapshot")
    /\ Len(df_latest) >= 2
    /\ \A k \in 1..Len(symbols) : Len(all_data[symbols[k]]) >= 2
    /\ \E k \in 1..Len(symbols) :
        LET last == ChronologicallyLast(all_data[symbols[k]])
        IN  last.Close % 10 = 5 /\ df_latest[k].LatestPrice # last.Close

\* C7: when a run after a successful fetch has ended, every selected symbol
\* with fetched rows has exactly one block of rows in the preview, exactly
\* one trace in each of the four charts and exactly one row in the snapshot
\* table, all in selection order.
C7_EverySymbolOnceEverywhere ==
    (RunEnded /\ symbols # <<>> /\ error # "download") =>
        /\ Blocks(Column(preview_data, "Symbol")) = WithRows
        /\ OnlyWithRows(Column(fig_open, "name")) = WithRows
        /\ OnlyWithRows(Column(fig_close, "name")) = WithRows
        /\ OnlyWithRows(Column(fig_vol, "name")) = WithRows
        /\ OnlyWithRows(Column(fig_pct, "name")) = WithRows
        /\ OnlyWithRows(Column(df_latest, "Symbol")) = WithRows

\* C9: the on-screen preview is the first min(20, N) rows of the N-row
\* preview table, in table order; the CSV is a header line followed by one
\* line for each of the N rows, in table order, with every field and the
\* Symbol tag of the row.
C9_PreviewHeadAndFullCsv ==
    /\ Shows("preview") =>
        /\ Len(shown) = MinOf(HeadRows, Len(preview_data))
        /\ \A k \in 1..Len(shown) : shown[k] = preview_data[k]
    /\ Shows("csv") =>
        /\ Len(csv_data) = Len(preview_data) + 1
        /\ csv_data[1] = CsvHeader
        /\ \A k \in 1..Len(preview_data) :
            LET line == csv_data[k + 1]
                row == preview_data[k]
            IN  /\ line[1] = row.Date /\ line[2] = row.Open /\ line[3] = row.High
                /\ line[4] = row.Low /\ line[5] = row.Close
                /\ line[6] = row.Volume /\ line[7] = row.Symbol

C9_Witness ==
    /\ Shows("csv")
    /\ Len(preview_data) > HeadRows
    /\ Len(shown) = HeadRows
    /\ Len(csv_data) = Len(preview_data) + 1

\* C10: two consecutive runs with the same symbols, start date and end date
\* over the same upstream data and fetch outcome end with the same preview
\* table, on-screen preview, CSV, charts, snapshot table and page elements,
\* whatever the theme toggle and the refresh button were in either run.
SameRunInputs ==
    /\ prev.ran
    /\ prev.symbols = symbols
    /\ prev.start_date = start_date
    /\ prev.end_date = end_date
    /\ prev.market = market
    /\ (prev.error = "download") = (error = "download")

C10_RerunIdempotent ==
    (RunEnded /\ SameRunInputs) =>
        /\ prev.preview_data = preview_data
        /\ prev.shown = shown
        /\ prev.csv_data = csv_data
        /\ prev.fig_open = fig_open
        /\ prev.fig_close = fig_close
        /\ prev.fig_vol = fig_vol
        /\ prev.fig_pct = fig_pct
        /\ prev.df_latest = df_latest
        /\ prev.emitted = emitted
        /\ prev.pc = pc

C10_Witness ==
    /\ pc = "done"
    /\ SameRunInputs
    /\ prev.dark_mode # dark_mode
    /\ prev.refresh # refresh
    /\ Len(symbols) >= 2
    /\ Len(df_latest) = Len(symbols)
    /\ prev.df_latest = df_latest

====
